---- MODULE Spec2Model ----
(***************************************************************************)
(* releaseguard: the evaluation engine (engine/rules.py,                   *)
(* engine/scoring.py) and the request layer that feeds it                  *)
(* (api/routes/releases.py).                                               *)
(*                                                                         *)
(* Numbers.  Signal values and gate limits are Python floats; here they    *)
(* are exact fixed-point integers in units of 1/Milli (0.98 is 980, a      *)
(* count of 100 tests is 100000).  Category risks are integers in units    *)
(* of 1/RiskUnit, weights are integers in units of 1/100, and a risk       *)
(* score is an integer in units of 1/RiskUnit of a point on the 0-100      *)
(* scale, so every product and quotient of the source is exact.  Only      *)
(* finite numbers are represented: no NaN and no infinity.                 *)
(* An Optional[...] value is a sequence: <<>> is None, <<v>> is v.         *)
(***************************************************************************)
EXTENDS Integers, Sequences, FiniteSets, TLC

VARIABLES
    signals,        \* engine caller: the list of Signal handed to the engine
    settings,       \* config.settings: approve_threshold, warn_threshold
    call,           \* engine caller: the last evaluate_release call, <<>> if none
    computed,       \* engine caller: the category risks last computed, <<>> if none
    releases,       \* db: ids of the rows of table releases
    db_signals,     \* db: release id -> its rows of table signals, in load order
    db_evaluations, \* db: release id -> its rows of table evaluations, in insertion order
    response,       \* request layer: the last HTTP response, <<>> if none
    now,            \* the wall clock datetime.utcnow reads
    calls,          \* threads: the evaluate_release calls begun, each with its position
    default_thresholds, \* the module-level dict rules.DEFAULT_THRESHOLDS
    default_weights     \* the module-level dict scoring.DEFAULT_WEIGHTS

vars == <<signals, settings, call, computed, releases, db_signals, db_evaluations, response, now,
         calls, default_thresholds, default_weights>>

engineVars == <<signals, settings, call, computed>>

apiVars == <<releases, db_signals, db_evaluations, response, now>>

moduleVars == <<calls, default_thresholds, default_weights>>

----------------------------------------------------------------------------
(* Bounds of the model *)

MaxSignals == 2

MaxReleases == 2

MaxStored == 3

MaxEvaluations == 2

\* evaluate_release calls begun in one behaviour
MaxCalls == 3

\* the wall clock reads 0..MaxClock
MaxClock == 1

----------------------------------------------------------------------------
(* Number representation *)

Milli == 1000

RiskUnit == 24000

None == <<>>

Some(v) == <<v>>

Min(a, b) == IF a <= b THEN a ELSE b

Max(a, b) == IF a >= b THEN a ELSE b

RECURSIVE SumSeq(_)
SumSeq(s) == IF s = <<>> THEN 0 ELSE Head(s) + SumSeq(Tail(s))

RECURSIVE MaxSeq(_)
MaxSeq(s) == IF Len(s) = 1 THEN s[1] ELSE Max(Head(s), MaxSeq(Tail(s)))

----------------------------------------------------------------------------
(* db/models.py: enumerations and the Signal row *)

SignalType == {"TEST", "COVERAGE", "PERF", "CANARY", "DEP"}

Decision == {"APPROVE", "WARN", "BLOCK"}

Severity == {"BLOCK", "WARN", "INFO"}

Signal(type, name, value_num) ==
    [type |-> type, name |-> name, value_num |-> value_num]

----------------------------------------------------------------------------
(* engine/rules.py *)

DEFAULT_THRESHOLDS ==
    [k \in {"e2e_pass_rate_min", "integration_pass_rate_min", "unit_pass_rate_min",
            "total_tests_min", "line_coverage_min", "coverage_drop_max",
            "p95_regression_max", "error_rate_max", "canary_5xx_rate_max"} |->
        CASE k = "e2e_pass_rate_min" -> 980
          [] k = "integration_pass_rate_min" -> 950
          [] k = "unit_pass_rate_min" -> 950
          [] k = "total_tests_min" -> 1000
          [] k = "line_coverage_min" -> 700
          [] k = "coverage_drop_max" -> 20
          [] k = "p95_regression_max" -> 150
          [] k = "error_rate_max" -> 10
          [] k = "canary_5xx_rate_max" -> 10]

RuleResult(rule, severity, observed, limit, message, passed) ==
    [rule |-> rule, severity |-> severity, observed |-> observed,
     limit |-> limit, message |-> message, passed |-> passed]

\* get_signal_value returning the last match instead of the first
RECURSIVE get_signal_value_Last(_, _, _)
get_signal_value_Last(sigs, signal_type, name) ==
    IF sigs = <<>> THEN None
    ELSE LET last == sigs[Len(sigs)]
         IN IF last.type = signal_type /\ last.name = name
            THEN last.value_num
            ELSE get_signal_value_Last(SubSeq(sigs, 1, Len(sigs) - 1), signal_type, name)

\* get_signal_value matching a signal whose name contains the name asked for:
\* "canary_p95_regression" contains "p95_regression"
RECURSIVE get_signal_value_NameContains(_, _, _)
get_signal_value_NameContains(sigs, signal_type, name) ==
    IF sigs = <<>> THEN None
    ELSE IF /\ Head(sigs).type = signal_type
            /\ \/ Head(sigs).name = name
               \/ Head(sigs).name = "canary_p95_regression" /\ name = "p95_regression"
         THEN Head(sigs).value_num
         ELSE get_signal_value_NameContains(Tail(sigs), signal_type, name)

\* for signal in signals: if signal.type == signal_type and signal.name == name:
\*     return signal.value_num;  return None
RECURSIVE get_signal_value(_, _, _)
get_signal_value(sigs, signal_type, name) ==
    IF sigs = <<>> THEN None
    ELSE IF Head(sigs).type = signal_type /\ Head(sigs).name = name
         THEN Head(sigs).value_num
         ELSE get_signal_value(Tail(sigs), signal_type, name)

\* "thresholds or DEFAULT_THRESHOLDS", "weights or DEFAULT_WEIGHTS":
\* None and the empty dict are both falsy
OrDefault(override, default) ==
    IF override = None THEN default
    ELSE IF DOMAIN override[1] = {} THEN default
    ELSE override[1]

\* One branch of a gate function: the signal it looks up, the key of its limit,
\* its comparison, the severity it records when the comparison fails, and the
\* format specs of its message ("pct": observed :.1%, limit :.0%; "count":
\* int(observed), limit as it is; "rate": observed :.2%, limit :.1%).
Gate(rule, type, name, key, cmp, severity, fmt) ==
    [rule |-> rule, type |-> type, name |-> name, key |-> key,
     cmp |-> cmp, severity |-> severity, fmt |-> fmt]

HardGates ==
    << Gate("E2E_PASS_RATE", "TEST", "e2e_pass_rate", "e2e_pass_rate_min", ">=", "BLOCK",
            "pct"),
       Gate("INTEGRATION_PASS_RATE", "TEST", "integration_pass_rate",
            "integration_pass_rate_min", ">=", "BLOCK", "pct"),
       Gate("UNIT_PASS_RATE", "TEST", "unit_pass_rate", "unit_pass_rate_min", ">=", "BLOCK",
            "pct"),
       Gate("TOTAL_TESTS", "TEST", "total_tests", "total_tests_min", ">=", "BLOCK", "count"),
       Gate("LINE_COVERAGE", "COVERAGE", "line_coverage", "line_coverage_min", ">=", "WARN",
            "pct"),
       Gate("COVERAGE_DROP", "COVERAGE", "coverage_drop", "coverage_drop_max", "<=", "WARN",
            "pct") >>

PerformanceGates ==
    << Gate("P95_REGRESSION", "PERF", "p95_regression", "p95_regression_max", "<=", "BLOCK",
            "pct"),
       Gate("ERROR_RATE", "PERF", "error_rate", "error_rate_max", "<=", "BLOCK", "rate") >>

CanaryGates ==
    << Gate("CANARY_5XX_RATE", "CANARY", "5xx_rate", "canary_5xx_rate_max", "<=", "BLOCK",
            "rate") >>

\* Compare with strict comparisons
Compare_Strict(cmp, observed, limit) ==
    IF cmp = ">=" THEN observed > limit ELSE observed < limit

\* passed = observed >= t[key]   or   passed = observed <= t[key]
Compare(cmp, observed, limit) ==
    IF cmp = ">=" THEN observed >= limit ELSE observed <= limit

\* x rounded to a multiple of unit, ties to even
RoundTo(x, unit) ==
    LET q == x \div unit
        r == x % unit
    IN IF 2 * r < unit THEN q * unit
       ELSE IF 2 * r > unit THEN (q + 1) * unit
       ELSE IF q % 2 = 0 THEN q * unit ELSE (q + 1) * unit

\* int(x): x cut to a whole number, toward zero
TruncInt(x) == IF x >= 0 THEN (x \div Milli) * Milli ELSE -(((-x) \div Milli) * Milli)

\* The f-string of a branch: the number each format spec prints for the
\* observed value and for the limit (:.1% and :.2% print a value of whole
\* thousandths in full, :.0% rounds it to a whole percent), and the sign
\* chosen from passed.
Message(g, observed, limit, passed) ==
    << g.rule,
       CASE g.fmt = "pct" -> observed
         [] g.fmt = "count" -> TruncInt(observed)
         [] g.fmt = "rate" -> observed,
       IF g.cmp = ">=" THEN (IF ~passed THEN "<" ELSE ">=")
                       ELSE (IF ~passed THEN ">" ELSE "<="),
       CASE g.fmt = "pct" -> RoundTo(limit, 10)
         [] g.fmt = "count" -> limit
         [] g.fmt = "rate" -> limit >>

\* the RuleResult a branch appends when its signal has a value
GateResult(g, observed, limit) ==
    LET passed == Compare(g.cmp, observed, limit)
    IN RuleResult(g.rule,
                  IF ~passed THEN g.severity ELSE "INFO",
                  observed, limit, Message(g, observed, limit, passed), passed)

\* RunGates recording a failed result for a check whose signal has no value
RECURSIVE RunGates_AbsentFails(_, _, _, _)
RunGates_AbsentFails(gates, sigs, t, results) ==
    IF gates = <<>> THEN [raised |-> None, results |-> results]
    ELSE LET g == Head(gates)
             v == get_signal_value(sigs, g.type, g.name)
         IN IF g.key \notin DOMAIN t
            THEN [raised |-> Some(g.key), results |-> <<>>]
            ELSE RunGates_AbsentFails(Tail(gates), sigs, t,
                     Append(results,
                            IF v = None
                            THEN RuleResult(g.rule, g.severity, 0, t[g.key],
                                            Message(g, 0, t[g.key], FALSE), FALSE)
                            ELSE GateResult(g, v[1], t[g.key])))

\* The branches of a gate function run in order over the thresholds t.
\* A branch whose signal has a value reads t[key]; a missing key raises
\* KeyError and ends the whole call.
RECURSIVE RunGates(_, _, _, _)
RunGates(gates, sigs, t, results) ==
    IF gates = <<>> THEN [raised |-> None, results |-> results]
    ELSE LET g == Head(gates)
             v == get_signal_value(sigs, g.type, g.name)
         IN IF v = None THEN RunGates(Tail(gates), sigs, t, results)
            ELSE IF g.key \notin DOMAIN t
                 THEN [raised |-> Some(g.key), results |-> <<>>]
                 ELSE RunGates(Tail(gates), sigs, t,
                               Append(results, GateResult(g, v[1], t[g.key])))

evaluate_hard_gates(sigs, thresholds) ==
    RunGates(HardGates, sigs, OrDefault(thresholds, DEFAULT_THRESHOLDS), <<>>)

evaluate_performance_gates(sigs, thresholds) ==
    RunGates(PerformanceGates, sigs, OrDefault(thresholds, DEFAULT_THRESHOLDS), <<>>)

evaluate_canary_gates(sigs, thresholds) ==
    RunGates(CanaryGates, sigs, OrDefault(thresholds, DEFAULT_THRESHOLDS), <<>>)

----------------------------------------------------------------------------
(* engine/scoring.py *)

DEFAULT_WEIGHTS ==
    [k \in {"tests", "coverage", "perf", "canary", "deps"} |->
        CASE k = "tests" -> 35
          [] k = "coverage" -> 10
          [] k = "perf" -> 25
          [] k = "canary" -> 25
          [] k = "deps" -> 5]

\* risks.append(term) when the looked-up value is not None
Term(v, term) == IF v = None THEN <<>> ELSE <<term>>

\* TestRisks taking each pass rate itself, not its complement, as the risk
TestRisks_NoComplement(sigs) ==
    LET unit_pass_rate == get_signal_value(sigs, "TEST", "unit_pass_rate")
        integration_pass_rate == get_signal_value(sigs, "TEST", "integration_pass_rate")
        e2e_pass_rate == get_signal_value(sigs, "TEST", "e2e_pass_rate")
        flaky_rate == get_signal_value(sigs, "TEST", "flaky_rate")
    IN    Term(unit_pass_rate, unit_pass_rate[1] * 24)
       \o Term(integration_pass_rate, integration_pass_rate[1] * 24)
       \o Term(e2e_pass_rate, e2e_pass_rate[1] * 36)
       \o Term(flaky_rate, flaky_rate[1] * 12)

\* risks: 1 - unit_pass_rate, 1 - integration_pass_rate,
\* (1 - e2e_pass_rate) * 1.5, flaky_rate * 0.5, each in units of 1/RiskUnit
TestRisks(sigs) ==
    LET unit_pass_rate == get_signal_value(sigs, "TEST", "unit_pass_rate")
        integration_pass_rate == get_signal_value(sigs, "TEST", "integration_pass_rate")
        e2e_pass_rate == get_signal_value(sigs, "TEST", "e2e_pass_rate")
        flaky_rate == get_signal_value(sigs, "TEST", "flaky_rate")
    IN    Term(unit_pass_rate, (Milli - unit_pass_rate[1]) * 24)
       \o Term(integration_pass_rate, (Milli - integration_pass_rate[1]) * 24)
       \o Term(e2e_pass_rate, (Milli - e2e_pass_rate[1]) * 36)
       \o Term(flaky_rate, flaky_rate[1] * 12)

\* compute_test_risk scoring the absence of every test signal as full risk
compute_test_risk_AbsentIsOne(sigs) ==
    LET risks == TestRisks(sigs)
    IN IF risks = <<>> THEN RiskUnit
       ELSE Min(RiskUnit, SumSeq(risks) \div Len(risks))

\* compute_test_risk dividing by the four signals it reads, present or not
compute_test_risk_FixedDivisor(sigs) ==
    LET risks == TestRisks(sigs)
    IN IF risks = <<>> THEN 0
       ELSE Min(RiskUnit, SumSeq(risks) \div 4)

\* if not risks: return 0.0;  return min(1.0, sum(risks) / len(risks))
compute_test_risk(sigs) ==
    LET risks == TestRisks(sigs)
    IN IF risks = <<>> THEN 0
       ELSE Min(RiskUnit, SumSeq(risks) \div Len(risks))

\* risks: 1 - line_coverage, min(1.0, coverage_drop * 10)
CoverageRisks(sigs) ==
    LET line_coverage == get_signal_value(sigs, "COVERAGE", "line_coverage")
        coverage_drop == get_signal_value(sigs, "COVERAGE", "coverage_drop")
    IN    Term(line_coverage, (Milli - line_coverage[1]) * 24)
       \o Term(coverage_drop, Min(RiskUnit, coverage_drop[1] * 240))

\* compute_coverage_risk averaging its terms as compute_test_risk does
compute_coverage_risk_Average(sigs) ==
    LET risks == CoverageRisks(sigs)
    IN IF risks = <<>> THEN 0 ELSE Min(RiskUnit, SumSeq(risks) \div Len(risks))

\* if not risks: return 0.0;  return min(1.0, max(risks))
compute_coverage_risk(sigs) ==
    LET risks == CoverageRisks(sigs)
    IN IF risks = <<>> THEN 0 ELSE Min(RiskUnit, MaxSeq(risks))

\* risks: min(1.0, p95_regression / 0.15), min(1.0, error_rate / 0.01)
PerfRisks(sigs) ==
    LET p95_regression == get_signal_value(sigs, "PERF", "p95_regression")
        error_rate == get_signal_value(sigs, "PERF", "error_rate")
    IN    Term(p95_regression, Min(RiskUnit, p95_regression[1] * 160))
       \o Term(error_rate, Min(RiskUnit, error_rate[1] * 2400))

compute_perf_risk(sigs) ==
    LET risks == PerfRisks(sigs)
    IN IF risks = <<>> THEN 0 ELSE Min(RiskUnit, MaxSeq(risks))

\* CanaryRisks looking the latency regression up as "canary_p95_regression"
CanaryRisks_PrefixedName(sigs) ==
    LET canary_5xx_rate == get_signal_value(sigs, "CANARY", "5xx_rate")
        canary_latency_regression == get_signal_value(sigs, "CANARY", "canary_p95_regression")
    IN    Term(canary_5xx_rate, Min(RiskUnit, canary_5xx_rate[1] * 2400))
       \o Term(canary_latency_regression, Min(RiskUnit, canary_latency_regression[1] * 160))

\* risks: min(1.0, canary_5xx_rate / 0.01),
\* min(1.0, canary_latency_regression / 0.15), the latter looked up as
\* (CANARY, "p95_regression")
CanaryRisks(sigs) ==
    LET canary_5xx_rate == get_signal_value(sigs, "CANARY", "5xx_rate")
        canary_latency_regression == get_signal_value(sigs, "CANARY", "p95_regression")
    IN    Term(canary_5xx_rate, Min(RiskUnit, canary_5xx_rate[1] * 2400))
       \o Term(canary_latency_regression, Min(RiskUnit, canary_latency_regression[1] * 160))

compute_canary_risk(sigs) ==
    LET risks == CanaryRisks(sigs)
    IN IF risks = <<>> THEN 0 ELSE Min(RiskUnit, MaxSeq(risks))

\* the keys w[...] reads, in the order the weighted sum reads them
WeightKeysRead == <<"tests", "coverage", "perf", "canary">>

\* the first key of WeightKeysRead that w lacks, None if it has them all
RECURSIVE FirstMissing(_, _)
FirstMissing(keys, w) ==
    IF keys = <<>> THEN None
    ELSE IF Head(keys) \notin DOMAIN w THEN Some(Head(keys))
    ELSE FirstMissing(Tail(keys), w)

\* compute_weighted_risk_score with a dependency risk, 1.0 when a DEP signal
\* reports a positive value, weighted by w["deps"]
compute_weighted_risk_score_WithDeps(sigs, weights) ==
    LET w == OrDefault(weights, DEFAULT_WEIGHTS)
        missing == FirstMissing(WeightKeysRead \o <<"deps">>, w)
        deps_risk == IF \E i \in 1..Len(sigs) :
                            /\ sigs[i].type = "DEP"
                            /\ sigs[i].value_num # None
                            /\ sigs[i].value_num[1] > 0
                     THEN RiskUnit ELSE 0
    IN IF missing # None THEN [raised |-> missing, score |-> 0]
       ELSE [raised |-> None,
             score |-> w["tests"] * compute_test_risk(sigs)
                     + w["coverage"] * compute_coverage_risk(sigs)
                     + w["perf"] * compute_perf_risk(sigs)
                     + w["canary"] * compute_canary_risk(sigs)
                     + w["deps"] * deps_risk]

\* (w["tests"] * test_risk + w["coverage"] * coverage_risk
\*  + w["perf"] * perf_risk + w["canary"] * canary_risk) * 100
compute_weighted_risk_score(sigs, weights) ==
    LET w == OrDefault(weights, DEFAULT_WEIGHTS)
        missing == FirstMissing(WeightKeysRead, w)
    IN IF missing # None THEN [raised |-> missing, score |-> 0]
       ELSE [raised |-> None,
             score |-> w["tests"] * compute_test_risk(sigs)
                     + w["coverage"] * compute_coverage_risk(sigs)
                     + w["perf"] * compute_perf_risk(sigs)
                     + w["canary"] * compute_canary_risk(sigs)]

\* risk_score >= threshold, the threshold a number on the 0-100 scale
ScoreAtLeast(risk_score, threshold) == risk_score >= threshold * RiskUnit

EvaluationResult(decision, risk_score, rationale) ==
    [kind |-> "EvaluationResult", decision |-> decision,
     risk_score |-> risk_score, rationale |-> rationale]

KeyError(key) == [kind |-> "KeyError", key |-> key]

\* any(r.severity == sev and not r.passed for r in all_results)
HasFailure(all_results, sev) ==
    \E i \in 1..Len(all_results) :
        all_results[i].severity = sev /\ ~all_results[i].passed

\* Decide without its final escalation to BLOCK
Decide_NoEscalation(has_block, has_warn, risk_score, st) ==
    IF has_block THEN "BLOCK"
    ELSE IF has_warn \/ ScoreAtLeast(risk_score, st.warn_threshold) THEN "WARN"
    ELSE IF ScoreAtLeast(risk_score, st.approve_threshold) THEN "WARN"
    ELSE "APPROVE"

\* Decide with the escalation comparing risk_score > warn_threshold
Decide_StrictEscalation(has_block, has_warn, risk_score, st) ==
    IF risk_score > st.warn_threshold * RiskUnit THEN "BLOCK"
    ELSE Decide_NoEscalation(has_block, has_warn, risk_score, st)

\* Decide with the has_block branch dropped
Decide_IgnoreBlock(has_block, has_warn, risk_score, st) ==
    IF ScoreAtLeast(risk_score, st.warn_threshold) THEN "BLOCK"
    ELSE IF has_warn \/ ScoreAtLeast(risk_score, st.approve_threshold) THEN "WARN"
    ELSE "APPROVE"

\* the if / elif chain on has_block, has_warn and risk_score, then the
\* escalation "if risk_score >= settings.warn_threshold: decision = BLOCK"
Decide(has_block, has_warn, risk_score, st) ==
    LET decision ==
            IF has_block THEN "BLOCK"
            ELSE IF has_warn \/ ScoreAtLeast(risk_score, st.warn_threshold) THEN "WARN"
            ELSE IF ScoreAtLeast(risk_score, st.approve_threshold) THEN "WARN"
            ELSE "APPROVE"
    IN IF ScoreAtLeast(risk_score, st.warn_threshold) THEN "BLOCK" ELSE decision

\* evaluate_release collecting the performance gates before the hard gates
evaluate_release_PerformanceFirst(sigs, thresholds, weights, st) ==
    LET hard == evaluate_hard_gates(sigs, thresholds)
        perf == evaluate_performance_gates(sigs, thresholds)
        canary == evaluate_canary_gates(sigs, thresholds)
        all_results == perf.results \o hard.results \o canary.results
        scored == compute_weighted_risk_score(sigs, weights)
    IN IF perf.raised # None THEN KeyError(perf.raised[1])
       ELSE IF hard.raised # None THEN KeyError(hard.raised[1])
       ELSE IF canary.raised # None THEN KeyError(canary.raised[1])
       ELSE IF scored.raised # None THEN KeyError(scored.raised[1])
       ELSE EvaluationResult(
                Decide(HasFailure(all_results, "BLOCK"), HasFailure(all_results, "WARN"),
                       scored.score, st),
                scored.score, all_results)

evaluate_release(sigs, thresholds, weights, st) ==
    LET hard == evaluate_hard_gates(sigs, thresholds)
        perf == evaluate_performance_gates(sigs, thresholds)
        canary == evaluate_canary_gates(sigs, thresholds)
        all_results == hard.results \o perf.results \o canary.results
        scored == compute_weighted_risk_score(sigs, weights)
    IN IF hard.raised # None THEN KeyError(hard.raised[1])
       ELSE IF perf.raised # None THEN KeyError(perf.raised[1])
       ELSE IF canary.raised # None THEN KeyError(canary.raised[1])
       ELSE IF scored.raised # None THEN KeyError(scored.raised[1])
       ELSE EvaluationResult(
                Decide(HasFailure(all_results, "BLOCK"), HasFailure(all_results, "WARN"),
                       scored.score, st),
                scored.score, all_results)

\* EvaluationResult.to_dict / the response of the evaluate route:
\* [r.to_dict() for r in self.rationale if not r.passed]
FailedOnly(rationale) == SelectSeq(rationale, LAMBDA r : ~r.passed)

----------------------------------------------------------------------------
(* Inputs of the model: the signals a collector can hand over, the         *)
(* overrides a caller can pass, the settings a process can start with      *)

SignalUniverse ==
    { Signal("TEST", "e2e_pass_rate", Some(500)),
      Signal("TEST", "e2e_pass_rate", Some(1000)),
      Signal("TEST", "e2e_pass_rate", None),
      Signal("TEST", "integration_pass_rate", Some(900)),
      Signal("TEST", "unit_pass_rate", Some(1000)),
      Signal("TEST", "total_tests", Some(0)),
      Signal("TEST", "total_tests", Some(100000)),
      Signal("TEST", "flaky_rate", Some(100)),
      Signal("COVERAGE", "line_coverage", Some(900)),
      Signal("COVERAGE", "line_coverage", Some(0)),
      Signal("COVERAGE", "coverage_drop", Some(30)),
      Signal("COVERAGE", "coverage_drop", Some(-50)),
      Signal("PERF", "p95_regression", Some(150)),
      Signal("PERF", "p95_regression", Some(-150)),
      Signal("PERF", "error_rate", Some(20)),
      Signal("CANARY", "5xx_rate", Some(20)),
      Signal("CANARY", "p95_regression", Some(150)),
      Signal("CANARY", "canary_p95_regression", Some(150)),
      Signal("DEP", "vuln_count", Some(3000)) }

\* a dict with the keys of keys and the values of d
Restrict(d, keys) == [k \in keys |-> d[k]]

LenientThresholds ==
    [k \in DOMAIN DEFAULT_THRESHOLDS |->
        CASE k = "e2e_pass_rate_min" -> 500
          [] k = "error_rate_max" -> 20
          [] k = "coverage_drop_max" -> 30
          [] k = "canary_5xx_rate_max" -> 20
          [] OTHER -> DEFAULT_THRESHOLDS[k]]

CanaryOnlyWeights ==
    [k \in DOMAIN DEFAULT_WEIGHTS |-> IF k = "canary" THEN 100 ELSE 0]

ThresholdsChoices ==
    { None,
      Some(Restrict(DEFAULT_THRESHOLDS, {})),
      Some(LenientThresholds),
      Some(Restrict(LenientThresholds, DOMAIN DEFAULT_THRESHOLDS \ {"e2e_pass_rate_min"})),
      Some(Restrict(LenientThresholds, {"e2e_pass_rate_min"})) }

WeightsChoices ==
    { None,
      Some(Restrict(DEFAULT_WEIGHTS, {})),
      Some(CanaryOnlyWeights),
      Some(Restrict(CanaryOnlyWeights, DOMAIN DEFAULT_WEIGHTS \ {"deps"})),
      Some(Restrict(CanaryOnlyWeights, DOMAIN DEFAULT_WEIGHTS \ {"canary"})) }

\* the (thresholds, weights) pairs a call is made with
OverrideChoices ==
    (ThresholdsChoices \X {None}) \cup ({None} \X WeightsChoices)
    \cup { <<Some(LenientThresholds), Some(CanaryOnlyWeights)>> }

Settings(approve_threshold, warn_threshold) ==
    [approve_threshold |-> approve_threshold, warn_threshold |-> warn_threshold]

DefaultSettings == Settings(30, 60)

SettingsChoices == { DefaultSettings, Settings(10, 25), Settings(25, 10) }

----------------------------------------------------------------------------
(* The engine and its caller *)

Init ==
    /\ signals = <<>>
    /\ settings \in SettingsChoices
    /\ call = None
    /\ computed = None
    /\ releases = {}
    /\ db_signals = [r \in 1..MaxReleases |-> <<>>]
    /\ db_evaluations = [r \in 1..MaxReleases |-> <<>>]
    /\ response = None
    /\ now = 0
    /\ calls = <<>>
    /\ default_thresholds = DEFAULT_THRESHOLDS
    /\ default_weights = DEFAULT_WEIGHTS

\* the caller puts one more Signal at the end of the list it will hand over
AppendSignal(s) ==
    /\ Len(signals) < MaxSignals
    /\ signals' = Append(signals, s)
    /\ call' = None
    /\ computed' = None
    /\ UNCHANGED <<settings, apiVars, moduleVars>>

\* evaluate_release(signals, thresholds, weights), called on a list the caller
\* has not yet had evaluated
Evaluate(thresholds, weights) ==
    /\ call = None
    /\ call' = Some([signals |-> signals, thresholds |-> thresholds, weights |-> weights,
                     outcome |-> evaluate_release(signals, thresholds, weights, settings)])
    /\ UNCHANGED <<signals, settings, computed, apiVars, moduleVars>>

Next ==
    \/ \E s \in SignalUniverse : AppendSignal(s)
    \/ \E o \in OverrideChoices : Evaluate(o[1], o[2])

Spec == Init /\ [][Next]_vars

----------------------------------------------------------------------------
(* The category risk functions called on their own, as the tests of the    *)
(* engine call them                                                        *)

\* the signals the risk functions are called with: those they look up, at
\* values inside and outside the range of a rate, and one they do not read
RiskUniverse ==
    { Signal("TEST", "unit_pass_rate", Some(1000)),
      Signal("TEST", "integration_pass_rate", Some(900)),
      Signal("TEST", "e2e_pass_rate", Some(500)),
      Signal("TEST", "e2e_pass_rate", Some(0)),
      Signal("TEST", "flaky_rate", Some(100)),
      Signal("TEST", "total_tests", Some(100000)),
      Signal("COVERAGE", "line_coverage", Some(900)),
      Signal("COVERAGE", "line_coverage", Some(0)),
      Signal("COVERAGE", "coverage_drop", Some(30)),
      Signal("COVERAGE", "coverage_drop", Some(200)),
      Signal("COVERAGE", "coverage_drop", Some(-50)),
      Signal("PERF", "p95_regression", Some(150)),
      Signal("PERF", "error_rate", Some(5)),
      Signal("CANARY", "5xx_rate", Some(20)),
      Signal("CANARY", "5xx_rate", Some(5)),
      Signal("CANARY", "p95_regression", Some(150)),
      Signal("CANARY", "p95_regression", Some(60)),
      Signal("CANARY", "canary_p95_regression", Some(150)) }

InitRisk ==
    /\ signals = <<>>
    /\ settings = DefaultSettings
    /\ call = None
    /\ computed = None
    /\ releases = {}
    /\ db_signals = [r \in 1..MaxReleases |-> <<>>]
    /\ db_evaluations = [r \in 1..MaxReleases |-> <<>>]
    /\ response = None
    /\ now = 0
    /\ calls = <<>>
    /\ default_thresholds = DEFAULT_THRESHOLDS
    /\ default_weights = DEFAULT_WEIGHTS

\* test_risk = compute_test_risk(signals), coverage_risk =
\* compute_coverage_risk(signals), perf_risk = compute_perf_risk(signals),
\* canary_risk = compute_canary_risk(signals), on a list not yet scored
ComputeRisks ==
    /\ computed = None
    /\ computed' = Some([signals |-> signals,
                         test_risk |-> compute_test_risk(signals),
                         coverage_risk |-> compute_coverage_risk(signals),
                         perf_risk |-> compute_perf_risk(signals),
                         canary_risk |-> compute_canary_risk(signals)])
    /\ UNCHANGED <<signals, settings, call, apiVars, moduleVars>>

NextRisk ==
    \/ \E s \in RiskUniverse : AppendSignal(s)
    \/ ComputeRisks

SpecRisk == InitRisk /\ [][NextRisk]_vars

----------------------------------------------------------------------------
(* The request layer: api/routes/releases.py over the tables of            *)
(* db/models.py.  A handler runs to its commit as one step.                *)

ApiSignalUniverse ==
    { Signal("TEST", "e2e_pass_rate", Some(500)),
      Signal("TEST", "e2e_pass_rate", Some(1000)),
      Signal("COVERAGE", "coverage_drop", Some(30)) }

\* round(risk_score, 2): the score in hundredths of a point, ties to even
Round2(risk_score) ==
    LET q == risk_score \div 240
        r == risk_score % 240
    IN IF r * 2 < 240 THEN q
       ELSE IF r * 2 > 240 THEN q + 1
       ELSE IF q % 2 = 0 THEN q ELSE q + 1

Response(request, release_id, status_code, engine_invoked, body) ==
    Some([request |-> request, release_id |-> release_id, status_code |-> status_code,
          engine_invoked |-> engine_invoked, body |-> body])

\* EvaluationResult.to_dict
to_dict(result) ==
    [decision |-> result.decision, risk_score |-> Round2(result.risk_score),
     rationale |-> FailedOnly(result.rationale)]

\* Evaluation(release_id, risk_score, decision, rationale_json) keeping only
\* the failed rule results, as the response does
EvaluationRow_FailedOnly(result, evaluated_at) ==
    [risk_score |-> result.risk_score, decision |-> result.decision,
     rationale_json |-> FailedOnly(result.rationale), evaluated_at |-> evaluated_at]

\* Evaluation(release_id, risk_score, decision, rationale_json), with
\* evaluated_at defaulting to datetime.utcnow
EvaluationRow(result, evaluated_at) ==
    [risk_score |-> result.risk_score, decision |-> result.decision,
     rationale_json |-> result.rationale, evaluated_at |-> evaluated_at]

\* the number of rows of a table, over all releases
RECURSIVE Rows(_, _)
Rows(table, n) == IF n = 0 THEN 0 ELSE Len(table[n]) + Rows(table, n - 1)

InitApi ==
    /\ signals = <<>>
    /\ settings = DefaultSettings
    /\ call = None
    /\ computed = None
    /\ releases = {}
    /\ db_signals = [r \in 1..MaxReleases |-> <<>>]
    /\ db_evaluations = [r \in 1..MaxReleases |-> <<>>]
    /\ response = None
    /\ now = 0
    /\ calls = <<>>
    /\ default_thresholds = DEFAULT_THRESHOLDS
    /\ default_weights = DEFAULT_WEIGHTS

\* POST /releases
create_release(release_id) ==
    /\ release_id \notin releases
    /\ releases' = releases \cup {release_id}
    /\ response' = Response("create_release", release_id, 201, FALSE, <<>>)
    /\ UNCHANGED <<db_signals, db_evaluations, now, engineVars, moduleVars>>

\* POST /releases/{release_id}/signals
create_signal(release_id, signal_data) ==
    IF release_id \notin releases
    THEN /\ response' = Response("create_signal", release_id, 404, FALSE, <<>>)
         /\ UNCHANGED <<releases, db_signals, db_evaluations, now, engineVars, moduleVars>>
    ELSE /\ Rows(db_signals, MaxReleases) < MaxStored
         /\ db_signals' = [db_signals EXCEPT ![release_id] = Append(@, signal_data)]
         /\ response' = Response("create_signal", release_id, 201, FALSE, <<>>)
         /\ UNCHANGED <<releases, db_evaluations, now, engineVars, moduleVars>>

\* evaluate without the check for an empty signal list
evaluate_NoSignalCheck(release_id) ==
    IF release_id \notin releases
    THEN /\ response' = Response("evaluate", release_id, 404, FALSE, <<>>)
         /\ UNCHANGED <<releases, db_signals, db_evaluations, now, engineVars, moduleVars>>
    ELSE LET result == evaluate_release(db_signals[release_id], None, None, settings)
         IN /\ Rows(db_evaluations, MaxReleases) < MaxEvaluations
            /\ db_evaluations' =
                   [db_evaluations EXCEPT ![release_id] = Append(@, EvaluationRow(result, now))]
            /\ response' = Response("evaluate", release_id, 200, TRUE,
                                    [decision |-> result.decision,
                                     risk_score |-> Round2(result.risk_score),
                                     rationale |-> FailedOnly(result.rationale)])
            /\ UNCHANGED <<releases, db_signals, now, engineVars, moduleVars>>

\* POST /releases/{release_id}/evaluate
evaluate(release_id) ==
    IF release_id \notin releases
    THEN /\ response' = Response("evaluate", release_id, 404, FALSE, <<>>)
         /\ UNCHANGED <<releases, db_signals, db_evaluations, now, engineVars, moduleVars>>
    ELSE IF db_signals[release_id] = <<>>
    THEN /\ response' = Response("evaluate", release_id, 400, FALSE, <<>>)
         /\ UNCHANGED <<releases, db_signals, db_evaluations, now, engineVars, moduleVars>>
    ELSE LET result == evaluate_release(db_signals[release_id], None, None, settings)
         IN /\ Rows(db_evaluations, MaxReleases) < MaxEvaluations
            /\ db_evaluations' =
                   [db_evaluations EXCEPT ![release_id] = Append(@, EvaluationRow(result, now))]
            /\ response' = Response("evaluate", release_id, 200, TRUE,
                                    [decision |-> result.decision,
                                     risk_score |-> Round2(result.risk_score),
                                     rationale |-> FailedOnly(result.rationale)])
            /\ UNCHANGED <<releases, db_signals, now, engineVars, moduleVars>>

NextApi ==
    \/ \E r \in 1..MaxReleases : create_release(r)
    \/ \E r \in 1..MaxReleases, s \in ApiSignalUniverse : create_signal(r, s)
    \/ \E r \in 1..MaxReleases : evaluate(r)

SpecApi == InitApi /\ [][NextApi]_vars

----------------------------------------------------------------------------
(* The report of a release, with the wall clock that stamps evaluations.   *)
(* datetime.utcnow is the system's wall clock: between two requests it may *)
(* have advanced, stood still at its resolution, or been set back.         *)

\* max(evaluations, key=lambda e: e.evaluated_at) taken as the last row loaded
LatestEvaluation_LastLoaded(evaluations) == evaluations[Len(evaluations)]

\* max(evaluations, key=lambda e: e.evaluated_at): the first of the rows with
\* the greatest evaluated_at, in load order
LatestEvaluation(evaluations) ==
    evaluations[CHOOSE i \in 1..Len(evaluations) :
                   /\ \A j \in 1..Len(evaluations) :
                          evaluations[j].evaluated_at <= evaluations[i].evaluated_at
                   /\ \A j \in 1..(i - 1) :
                          evaluations[j].evaluated_at < evaluations[i].evaluated_at]

\* the system clock moves to another reading
ClockChange(t) ==
    /\ t # now
    /\ now' = t
    /\ UNCHANGED <<releases, db_signals, db_evaluations, response, engineVars, moduleVars>>

\* GET /releases/{release_id}/report
get_report(release_id) ==
    /\ IF release_id \notin releases
       THEN response' = Response("get_report", release_id, 404, FALSE, <<>>)
       ELSE LET stored == db_signals[release_id]
                evaluations == db_evaluations[release_id]
                latest == LatestEvaluation(evaluations)
            IN response' = Response("get_report", release_id, 200, FALSE,
                   [signals |-> stored,
                    evaluation |->
                        IF evaluations = <<>> THEN None
                        ELSE Some([decision |-> latest.decision,
                                   risk_score |-> latest.risk_score,
                                   rationale |-> FailedOnly(latest.rationale_json)]),
                    summary |->
                        [total_signals |-> Len(stored),
                         signal_types |-> { stored[i].type : i \in 1..Len(stored) },
                         decision |-> IF evaluations = <<>> THEN None
                                      ELSE Some(latest.decision),
                         risk_score |-> IF evaluations = <<>> THEN None
                                        ELSE Some(latest.risk_score)]])
    /\ UNCHANGED <<releases, db_signals, db_evaluations, now, engineVars, moduleVars>>

\* the releases the report scenarios create; every other id stays unknown
ReportReleases == {1}

NextReport ==
    \/ \E r \in ReportReleases : create_release(r)
    \/ \E r \in 1..MaxReleases, s \in ApiSignalUniverse : create_signal(r, s)
    \/ \E r \in 1..MaxReleases : evaluate(r)
    \/ \E r \in 1..MaxReleases : get_report(r)
    \/ \E t \in 0..MaxClock : ClockChange(t)

SpecReport == InitApi /\ [][NextReport]_vars

----------------------------------------------------------------------------
(* evaluate_release called from several threads of one process.  A call    *)
(* runs its statements in order: the three gate functions, then the score  *)
(* and the decision.  Its arguments and all_results are its own; the       *)
(* dicts DEFAULT_THRESHOLDS and DEFAULT_WEIGHTS and the settings object    *)
(* belong to the module and are shared by every call.  A step is one of    *)
(* the functions evaluate_release calls, and the steps of different calls  *)
(* interleave in any order.                                                *)

\* the argument lists the threads call evaluate_release with
CallChoices ==
    LET busy == << Signal("TEST", "e2e_pass_rate", Some(500)),
                   Signal("CANARY", "5xx_rate", Some(5)) >>
        slow == << Signal("TEST", "e2e_pass_rate", Some(1000)),
                   Signal("PERF", "error_rate", Some(20)) >>
    IN { <<busy, None, None>>,
         <<busy, Some(LenientThresholds), Some(CanaryOnlyWeights)>>,
         <<slow, None, None>>,
         <<slow, Some(Restrict(LenientThresholds,
                               DOMAIN DEFAULT_THRESHOLDS \ {"e2e_pass_rate_min"})), None>> }

\* t = thresholds or DEFAULT_THRESHOLDS, written as one in-place update of
\* the module's dict: DEFAULT_THRESHOLDS.update(thresholds or {})
BindThresholds_UpdateInPlace(thresholds, module) ==
    LET merged == [k \in DOMAIN module |->
                      IF thresholds # None /\ k \in DOMAIN thresholds[1]
                      THEN thresholds[1][k] ELSE module[k]]
    IN [t |-> merged, module |-> merged]

\* t = thresholds or DEFAULT_THRESHOLDS: t is bound to the caller's dict or
\* to the module's, and the module's dict is left as it is
BindThresholds(thresholds, module) ==
    [t |-> OrDefault(thresholds, module), module |-> module]

\* w = weights or DEFAULT_WEIGHTS, written as DEFAULT_WEIGHTS.update(weights or {})
BindWeights_UpdateInPlace(weights, module) ==
    LET merged == [k \in DOMAIN module |->
                      IF weights # None /\ k \in DOMAIN weights[1]
                      THEN weights[1][k] ELSE module[k]]
    IN [w |-> merged, module |-> merged]

\* w = weights or DEFAULT_WEIGHTS
BindWeights(weights, module) ==
    [w |-> OrDefault(weights, module), module |-> module]

InitThreads ==
    /\ signals = <<>>
    /\ settings = DefaultSettings
    /\ call = None
    /\ computed = None
    /\ releases = {}
    /\ db_signals = [r \in 1..MaxReleases |-> <<>>]
    /\ db_evaluations = [r \in 1..MaxReleases |-> <<>>]
    /\ response = None
    /\ now = 0
    /\ calls = <<>>
    /\ default_thresholds = DEFAULT_THRESHOLDS
    /\ default_weights = DEFAULT_WEIGHTS

\* a thread enters evaluate_release(signals, thresholds, weights):
\* all_results = []
BeginCall(args) ==
    /\ Len(calls) < MaxCalls
    /\ calls' = Append(calls, [given |-> args[1], signals |-> args[1],
                               thresholds |-> args[2], weights |-> args[3],
                               pc |-> "hard", all_results |-> <<>>, outcome |-> None])
    /\ UNCHANGED <<default_thresholds, default_weights, engineVars, apiVars>>

\* all_results.extend(<gate function>(signals, thresholds)) in call i; a
\* KeyError leaves evaluate_release at once
ExtendResults(i, gates, next) ==
    LET c == calls[i]
        bound == BindThresholds(c.thresholds, default_thresholds)
        run == RunGates(gates, c.signals, bound.t, <<>>)
    IN /\ default_thresholds' = bound.module
       /\ calls' = [calls EXCEPT ![i] =
              IF run.raised # None
              THEN [c EXCEPT !.pc = "done", !.outcome = Some(KeyError(run.raised[1]))]
              ELSE [c EXCEPT !.pc = next, !.all_results = c.all_results \o run.results]]
       /\ UNCHANGED <<default_weights, engineVars, apiVars>>

StepHardGates(i) ==
    /\ i \in DOMAIN calls
    /\ calls[i].pc = "hard"
    /\ ExtendResults(i, HardGates, "performance")

StepPerformanceGates(i) ==
    /\ i \in DOMAIN calls
    /\ calls[i].pc = "performance"
    /\ ExtendResults(i, PerformanceGates, "canary")

StepCanaryGates(i) ==
    /\ i \in DOMAIN calls
    /\ calls[i].pc = "canary"
    /\ ExtendResults(i, CanaryGates, "score")

\* has_block, has_warn, risk_score = compute_weighted_risk_score(signals,
\* weights), the decision and the return in call i.  The weights in force are
\* passed on as a mapping, which is never empty.
StepScore(i) ==
    /\ i \in DOMAIN calls
    /\ calls[i].pc = "score"
    /\ LET c == calls[i]
           bound == BindWeights(c.weights, default_weights)
           scored == compute_weighted_risk_score(c.signals, Some(bound.w))
       IN /\ default_weights' = bound.module
          /\ calls' = [calls EXCEPT ![i] =
                 [c EXCEPT !.pc = "done",
                           !.outcome =
                               IF scored.raised # None
                               THEN Some(KeyError(scored.raised[1]))
                               ELSE Some(EvaluationResult(
                                        Decide(HasFailure(c.all_results, "BLOCK"),
                                               HasFailure(c.all_results, "WARN"),
                                               scored.score, settings),
                                        scored.score, c.all_results))]]
    /\ UNCHANGED <<default_thresholds, engineVars, apiVars>>

NextThreads ==
    \/ \E args \in CallChoices : BeginCall(args)
    \/ \E i \in 1..MaxCalls : StepHardGates(i)
    \/ \E i \in 1..MaxCalls : StepPerformanceGates(i)
    \/ \E i \in 1..MaxCalls : StepCanaryGates(i)
    \/ \E i \in 1..MaxCalls : StepScore(i)

SpecThreads == InitThreads /\ [][NextThreads]_vars

----------------------------------------------------------------------------
(* Vocabulary of the properties *)

\* the catalog of checks: rule id, signal, limit key, comparator, severity on fail
Rule(rule, type, name, key, cmp, severity) ==
    [rule |-> rule, type |-> type, name |-> name, key |-> key,
     cmp |-> cmp, severity |-> severity]

Catalog ==
    { Rule("E2E_PASS_RATE", "TEST", "e2e_pass_rate", "e2e_pass_rate_min", ">=", "BLOCK"),
      Rule("INTEGRATION_PASS_RATE", "TEST", "integration_pass_rate",
           "integration_pass_rate_min", ">=", "BLOCK"),
      Rule("UNIT_PASS_RATE", "TEST", "unit_pass_rate", "unit_pass_rate_min", ">=", "BLOCK"),
      Rule("TOTAL_TESTS", "TEST", "total_tests", "total_tests_min", ">=", "BLOCK"),
      Rule("LINE_COVERAGE", "COVERAGE", "line_coverage", "line_coverage_min", ">=", "WARN"),
      Rule("COVERAGE_DROP", "COVERAGE", "coverage_drop", "coverage_drop_max", "<=", "WARN"),
      Rule("P95_REGRESSION", "PERF", "p95_regression", "p95_regression_max", "<=", "BLOCK"),
      Rule("ERROR_RATE", "PERF", "error_rate", "error_rate_max", "<=", "BLOCK"),
      Rule("CANARY_5XX_RATE", "CANARY", "5xx_rate", "canary_5xx_rate_max", "<=", "BLOCK") }

\* the (category, name) keys the risk functions read
RiskKeys ==
    { <<"TEST", "unit_pass_rate">>, <<"TEST", "integration_pass_rate">>,
      <<"TEST", "e2e_pass_rate">>, <<"TEST", "flaky_rate">>,
      <<"COVERAGE", "line_coverage">>, <<"COVERAGE", "coverage_drop">>,
      <<"PERF", "p95_regression">>, <<"PERF", "error_rate">>,
      <<"CANARY", "5xx_rate">>, <<"CANARY", "p95_regression">> }

\* the positions of the signals of sigs with this category and name
Matches(sigs, type, name) ==
    { i \in 1..Len(sigs) : sigs[i].type = type /\ sigs[i].name = name }

\* the value_num of the first signal with this category and name, None if none
FirstValue(sigs, type, name) ==
    LET m == Matches(sigs, type, name)
    IN IF m = {} THEN None
       ELSE sigs[CHOOSE i \in m : \A j \in m : i <= j].value_num

Holds(cmp, observed, limit) ==
    \/ cmp = ">=" /\ ~(observed < limit)
    \/ cmp = "<=" /\ ~(observed > limit)

Called == call # None

Outcome == call[1].outcome

Returned == Called /\ Outcome.kind = "EvaluationResult"

\* the thresholds the caller configured: its override, or the defaults
Configured == IF call[1].thresholds = None THEN DEFAULT_THRESHOLDS ELSE call[1].thresholds[1]

\* the caller kept the configuration contract: an override has every key
CompleteConfig ==
    /\ call[1].thresholds # None =>
           DOMAIN call[1].thresholds[1] = DOMAIN DEFAULT_THRESHOLDS
    /\ call[1].weights # None => DOMAIN call[1].weights[1] = DOMAIN DEFAULT_WEIGHTS

\* the weights in force: the caller's mapping, the defaults for none or {}
ConfiguredWeights ==
    IF call[1].weights = None \/ DOMAIN call[1].weights[1] = {} THEN DEFAULT_WEIGHTS
    ELSE call[1].weights[1]

\* sigs without its signals of this category
Without(sigs, type) == SelectSeq(sigs, LAMBDA s : s.type # type)

\* every pass rate the lookup finds is 1.0, and total_tests, if found, is at
\* least total_tests_min
AllTestsPass ==
    /\ \A n \in {"unit_pass_rate", "integration_pass_rate", "e2e_pass_rate"} :
           FirstValue(call[1].signals, "TEST", n) \in {None, Some(Milli)}
    /\ LET total_tests == FirstValue(call[1].signals, "TEST", "total_tests")
       IN total_tests # None => total_tests[1] >= Configured["total_tests_min"]

\* the calls that have returned or raised
Done == { i \in DOMAIN calls : calls[i].pc = "done" }

\* calls i and j were made with the same signals, thresholds and weights
SameArguments(i, j) ==
    /\ calls[i].given = calls[j].given
    /\ calls[i].thresholds = calls[j].thresholds
    /\ calls[i].weights = calls[j].weights

\* the engine looks this signal's (category, name) up, for a gate or a risk
LookedUp(s) ==
    \/ \E g \in Catalog : g.type = s.type /\ g.name = s.name
    \/ <<s.type, s.name>> \in RiskKeys

\* the rule ids in the order of the catalog
CatalogOrder ==
    << "E2E_PASS_RATE", "INTEGRATION_PASS_RATE", "UNIT_PASS_RATE", "TOTAL_TESTS",
       "LINE_COVERAGE", "COVERAGE_DROP", "P95_REGRESSION", "ERROR_RATE",
       "CANARY_5XX_RATE" >>

\* the catalog entry of a rule id
Entry(rule) == CHOOSE g \in Catalog : g.rule = rule

\* the rule ids of a rationale, in its order
RuleIds(rationale) == [i \in 1..Len(rationale) |-> rationale[i].rule]

\* the value_num of the latest signal with this category and name that
\* carries a number, None if there is none
LatestValue(sigs, type, name) ==
    LET m == { i \in Matches(sigs, type, name) : sigs[i].value_num # None }
    IN IF m = {} THEN None
       ELSE sigs[CHOOSE i \in m : \A j \in m : i >= j].value_num

\* the last response answers a successful evaluate request
Evaluated ==
    /\ response # None
    /\ response[1].request = "evaluate"
    /\ response[1].status_code = 200

\* the last response is a report that was served for a known release
Reported ==
    response # None /\ response[1].request = "get_report"
                    /\ response[1].status_code = 200

\* rows[i] carries the greatest evaluated_at of rows
Greatest(rows, i) ==
    \A j \in 1..Len(rows) : rows[j].evaluated_at <= rows[i].evaluated_at

Failed(rationale, severity) ==
    \E i \in 1..Len(rationale) : rationale[i].severity = severity /\ ~rationale[i].passed

Count(rationale, rule) == Cardinality({ i \in 1..Len(rationale) : rationale[i].rule = rule })

----------------------------------------------------------------------------
(* C1: the decision of evaluate_release is the four-tier policy, first     *)
(* match wins: risk_score >= warn_threshold gives BLOCK; else a failed     *)
(* BLOCK result gives BLOCK; else a failed WARN result or risk_score >=    *)
(* approve_threshold gives WARN; else APPROVE.  Comparisons are inclusive. *)
C1_FourTierPolicy ==
    Returned =>
        Outcome.decision =
            IF Outcome.risk_score >= settings.warn_threshold * RiskUnit THEN "BLOCK"
            ELSE IF Failed(Outcome.rationale, "BLOCK") THEN "BLOCK"
            ELSE IF \/ Failed(Outcome.rationale, "WARN")
                    \/ Outcome.risk_score >= settings.approve_threshold * RiskUnit
                 THEN "WARN"
            ELSE "APPROVE"

\* a score exactly equal to warn_threshold, no gate failed, decision BLOCK
C1_Witness ==
    /\ Returned
    /\ Outcome.risk_score = settings.warn_threshold * RiskUnit
    /\ \A i \in 1..Len(Outcome.rationale) : Outcome.rationale[i].passed
    /\ Outcome.decision = "BLOCK"

(* C2: escalation invariant: whenever the computed risk_score is at least  *)
(* warn_threshold the decision is BLOCK, whatever gates failed.            *)
C2_Escalation ==
    (Returned /\ ~(Outcome.risk_score < settings.warn_threshold * RiskUnit))
        => Outcome.decision = "BLOCK"

\* only WARN-severity gates failed, the score reaches warn_threshold, BLOCK
C2_Witness ==
    /\ Returned
    /\ ~(Outcome.risk_score < settings.warn_threshold * RiskUnit)
    /\ Failed(Outcome.rationale, "WARN")
    /\ ~Failed(Outcome.rationale, "BLOCK")
    /\ Outcome.decision = "BLOCK"

(* C3: under a complete configuration, when the signal looked up for a     *)
(* BLOCK-catalog rule is present and violates its limit, evaluate_release  *)
(* returns BLOCK and the rationale holds that rule failed with severity    *)
(* BLOCK, whatever the risk score and the other signals.                   *)
C3_ViolatedGateBlocks ==
    (Called /\ CompleteConfig) =>
        \A g \in Catalog :
            LET v == FirstValue(call[1].signals, g.type, g.name)
            IN (g.severity = "BLOCK" /\ v # None /\ ~Holds(g.cmp, v[1], Configured[g.key]))
                   => /\ Returned
                      /\ Outcome.decision = "BLOCK"
                      /\ \E i \in 1..Len(Outcome.rationale) :
                             /\ Outcome.rationale[i].rule = g.rule
                             /\ ~Outcome.rationale[i].passed
                             /\ Outcome.rationale[i].severity = "BLOCK"

\* a blocking gate failed while the risk score is below approve_threshold
C3_Witness ==
    /\ Returned
    /\ Failed(Outcome.rationale, "BLOCK")
    /\ Outcome.risk_score < settings.approve_threshold * RiskUnit
    /\ Outcome.risk_score < settings.warn_threshold * RiskUnit
    /\ Outcome.decision = "BLOCK"

(* C4: every emitted RuleResult has observed = the looked-up value, limit  *)
(* = the configured threshold of its rule, passed = the catalog comparator *)
(* (equality passes), severity INFO when passed and the catalog severity   *)
(* when failed; so severity = INFO exactly when passed.                    *)
C4_RuleResultContents ==
    (Returned /\ CompleteConfig) =>
        \A i \in 1..Len(Outcome.rationale) :
            LET r == Outcome.rationale[i]
            IN \E g \in Catalog :
                   /\ g.rule = r.rule
                   /\ <<r.observed>> = FirstValue(call[1].signals, g.type, g.name)
                   /\ r.limit = Configured[g.key]
                   /\ r.passed = Holds(g.cmp, r.observed, r.limit)
                   /\ r.severity = (IF r.passed THEN "INFO" ELSE g.severity)
                   /\ (r.severity = "INFO") = r.passed

\* one result passed on equality with its limit, another failed with WARN
C4_Witness ==
    /\ Returned
    /\ CompleteConfig
    /\ \E i \in 1..Len(Outcome.rationale) :
           /\ Outcome.rationale[i].observed = Outcome.rationale[i].limit
           /\ Outcome.rationale[i].passed
    /\ Failed(Outcome.rationale, "WARN")

(* C5 as claimed: the rationale holds exactly one RuleResult for each      *)
(* catalog rule whose (category, name) signal is in the sequence and none  *)
(* for a rule whose signal is not; the call does not raise.                *)
C5_OnePerPresentSignal ==
    (Called /\ CompleteConfig) =>
        /\ Returned
        /\ \A g \in Catalog :
               Count(Outcome.rationale, g.rule) =
                   IF Matches(call[1].signals, g.type, g.name) # {} THEN 1 ELSE 0

(* C5 as amended: the rationale holds exactly one RuleResult for each      *)
(* catalog rule whose first matching signal carries a numeric value and    *)
(* none for any other rule; the risk functions take one term for each key  *)
(* they read whose first matching signal carries a numeric value and no    *)
(* other term; the call does not raise.                                    *)
C5_OnePerNumericSignal ==
    (Called /\ CompleteConfig) =>
        /\ Returned
        /\ \A g \in Catalog :
               Count(Outcome.rationale, g.rule) =
                   IF FirstValue(call[1].signals, g.type, g.name) # None THEN 1 ELSE 0
        /\ Len(TestRisks(call[1].signals)) + Len(CoverageRisks(call[1].signals))
           + Len(PerfRisks(call[1].signals)) + Len(CanaryRisks(call[1].signals))
             = Cardinality({ k \in RiskKeys : FirstValue(call[1].signals, k[1], k[2]) # None })

\* one rule's signal is absent or without a number and has no result, while
\* another rule's signal has a number and has its result
C5_Witness ==
    /\ Returned
    /\ CompleteConfig
    /\ Len(call[1].signals) = 2
    /\ Len(Outcome.rationale) = 1
    /\ \E g \in Catalog :
           /\ Matches(call[1].signals, g.type, g.name) # {}
           /\ Count(Outcome.rationale, g.rule) = 0

(* C6: get_signal_value returns the value_num of the first signal, in the  *)
(* supplied order, whose category and name both match, and None when no    *)
(* signal matches; of several matching signals the first decides.          *)
C6_FirstMatchLookup ==
    \A s \in SignalUniverse \cup {Signal("TEST", "duration", None)} :
        get_signal_value(signals, s.type, s.name) =
            IF \A i \in 1..Len(signals) :
                   ~(signals[i].type = s.type /\ signals[i].name = s.name)
            THEN None
            ELSE LET first == CHOOSE i \in 1..Len(signals) :
                                  /\ signals[i].type = s.type /\ signals[i].name = s.name
                                  /\ \A j \in 1..(i - 1) :
                                         ~(signals[j].type = s.type /\ signals[j].name = s.name)
                 IN signals[first].value_num

\* two signals of one category and name with different numbers were looked
\* up, and the rule result observed the first
C6_Witness ==
    /\ Returned
    /\ Len(call[1].signals) = 2
    /\ call[1].signals[1].type = call[1].signals[2].type
    /\ call[1].signals[1].name = call[1].signals[2].name
    /\ call[1].signals[1].value_num # None
    /\ call[1].signals[2].value_num # None
    /\ call[1].signals[1].value_num # call[1].signals[2].value_num
    /\ Len(Outcome.rationale) = 1
    /\ <<Outcome.rationale[1].observed>> = call[1].signals[1].value_num

(* C7: a call whose Thresholds override lacks any of the nine keys, or     *)
(* whose Weights override lacks any of the five keys (an empty mapping     *)
(* included), fails with a key error.                                      *)
C7_PartialOverrideFailsFast ==
    (/\ Called
     /\ \/ /\ call[1].thresholds # None
           /\ DOMAIN call[1].thresholds[1] # DOMAIN DEFAULT_THRESHOLDS
        \/ /\ call[1].weights # None
           /\ DOMAIN call[1].weights[1] # DOMAIN DEFAULT_WEIGHTS)
        => Outcome.kind = "KeyError"

(* C8: under the default settings (approve_threshold 30, warn_threshold    *)
(* 60) evaluate_release on the empty signal sequence returns risk_score    *)
(* 0.0, decision APPROVE and an empty rationale, without raising.          *)
C8_EmptyApproves ==
    (Called /\ CompleteConfig /\ call[1].signals = <<>> /\ settings = DefaultSettings)
        => /\ Outcome.kind = "EvaluationResult"
           /\ Outcome.risk_score = 0
           /\ Outcome.decision = "APPROVE"
           /\ Outcome.rationale = <<>>

\* the engine was called on the empty sequence with no override
C8_Witness ==
    /\ Called
    /\ call[1].signals = <<>>
    /\ call[1].thresholds = None
    /\ call[1].weights = None
    /\ settings = DefaultSettings
    /\ Outcome.kind = "EvaluationResult"
    /\ Outcome.decision = "APPROVE"

(* C9: an evaluate request for an existing release with no stored signals  *)
(* is answered 400 before the engine is invoked and persists no            *)
(* Evaluation; no release without signals ever has an Evaluation record.   *)
C9_NoEvaluationWithoutSignals ==
    /\ \A r \in 1..MaxReleases : db_evaluations[r] # <<>> => db_signals[r] # <<>>
    /\ (/\ response # None
        /\ response[1].request = "evaluate"
        /\ response[1].release_id \in releases
        /\ db_signals[response[1].release_id] = <<>>)
           => /\ response[1].status_code = 400
              /\ ~response[1].engine_invoked
              /\ db_evaluations[response[1].release_id] = <<>>

\* an evaluate request on a release without signals was answered 400 while
\* another release has signals and an Evaluation
C9_Witness ==
    /\ response # None
    /\ response[1].request = "evaluate"
    /\ response[1].release_id \in releases
    /\ response[1].status_code = 400
    /\ db_signals[response[1].release_id] = <<>>
    /\ \E r \in releases : db_signals[r] # <<>> /\ db_evaluations[r] # <<>>

(* C10: each of compute_test_risk, compute_coverage_risk,                  *)
(* compute_perf_risk and compute_canary_risk returns a value in [0, 1]     *)
(* for every signal sequence, and 0.0 when none of the signals it reads    *)
(* is present.                                                             *)
C10_CategoryRiskInUnitInterval ==
    LET InUnit(x) == 0 <= x /\ x <= RiskUnit
        NonePresent(type, names) == \A n \in names : Matches(signals, type, n) = {}
    IN /\ InUnit(compute_test_risk(signals))
       /\ InUnit(compute_coverage_risk(signals))
       /\ InUnit(compute_perf_risk(signals))
       /\ InUnit(compute_canary_risk(signals))
       /\ NonePresent("TEST", {"unit_pass_rate", "integration_pass_rate",
                               "e2e_pass_rate", "flaky_rate"})
              => compute_test_risk(signals) = 0
       /\ NonePresent("COVERAGE", {"line_coverage", "coverage_drop"})
              => compute_coverage_risk(signals) = 0
       /\ NonePresent("PERF", {"p95_regression", "error_rate"})
              => compute_perf_risk(signals) = 0
       /\ NonePresent("CANARY", {"5xx_rate", "p95_regression"})
              => compute_canary_risk(signals) = 0

(* C11: the test risk is min(1.0, S / n): S sums one term per test signal  *)
(* that is present, 1 - unit_pass_rate, 1 - integration_pass_rate,         *)
(* (1 - e2e_pass_rate) * 1.5, flaky_rate * 0.5, and n counts the signals   *)
(* that contributed, not a fixed 4; with none of them present it is 0.0.   *)
C11_TestRiskIsMeanOfPresentTerms ==
    computed # None =>
    LET unit == FirstValue(computed[1].signals, "TEST", "unit_pass_rate")
        integration == FirstValue(computed[1].signals, "TEST", "integration_pass_rate")
        e2e == FirstValue(computed[1].signals, "TEST", "e2e_pass_rate")
        flaky == FirstValue(computed[1].signals, "TEST", "flaky_rate")
        Of(v, term) == IF v = None THEN 0 ELSE term
        \* S in units of 1/2000, the terms being multiples of 1/2000
        S == Of(unit, 2 * (Milli - unit[1])) + Of(integration, 2 * (Milli - integration[1]))
             + Of(e2e, 3 * (Milli - e2e[1])) + Of(flaky, flaky[1])
        n == Of(unit, 1) + Of(integration, 1) + Of(e2e, 1) + Of(flaky, 1)
        test_risk == computed[1].test_risk
    IN IF n = 0 THEN test_risk = 0
       ELSE IF S >= n * 2000 THEN test_risk = RiskUnit
       ELSE test_risk * 2000 * n = S * RiskUnit

\* two of the four test signals are present and the mean of their two terms,
\* 0.75 and 0.1, lies strictly between them and below 1
C11_Witness ==
    /\ computed # None
    /\ FirstValue(computed[1].signals, "TEST", "e2e_pass_rate") = Some(500)
    /\ FirstValue(computed[1].signals, "TEST", "integration_pass_rate") = Some(900)
    /\ computed[1].test_risk * 40 = 17 * RiskUnit

C13_LatencyReadFromCanaryP95Regression ==
    computed # None =>
    LET rate == FirstValue(computed[1].signals, "CANARY", "5xx_rate")
        regression == FirstValue(computed[1].signals, "CANARY", "canary_p95_regression")
        \* the terms in units of 1/RiskUnit: 1/0.01 = 2400/24, 1/0.15 = 160/24
        rate_term == IF rate[1] * 2400 > RiskUnit THEN RiskUnit ELSE rate[1] * 2400
        regression_term ==
            IF regression[1] * 160 > RiskUnit THEN RiskUnit ELSE regression[1] * 160
        canary_risk == computed[1].canary_risk
    IN /\ (rate = None /\ regression = None) => canary_risk = 0
       /\ (rate # None /\ regression = None) => canary_risk = rate_term
       /\ (rate = None /\ regression # None) => canary_risk = regression_term
       /\ (rate # None /\ regression # None)
              => canary_risk = IF rate_term > regression_term THEN rate_term
                               ELSE regression_term
       /\ (regression # None /\ regression[1] >= 150) => canary_risk = RiskUnit

(* C13: the canary risk is the maximum of the terms present,               *)
(* min(1, 5xx_rate / 0.01) read from the CANARY signal named 5xx_rate and  *)
(* min(1, p95_regression / 0.15) read from the CANARY signal named         *)
(* p95_regression; a CANARY signal named canary_p95_regression is not read.*)
C13_LatencyReadFromP95Regression ==
    computed # None =>
    LET rate == FirstValue(computed[1].signals, "CANARY", "5xx_rate")
        regression == FirstValue(computed[1].signals, "CANARY", "p95_regression")
        rate_term == IF rate[1] * 2400 > RiskUnit THEN RiskUnit ELSE rate[1] * 2400
        regression_term ==
            IF regression[1] * 160 > RiskUnit THEN RiskUnit ELSE regression[1] * 160
        canary_risk == computed[1].canary_risk
    IN /\ (rate = None /\ regression = None) => canary_risk = 0
       /\ (rate # None /\ regression = None) => canary_risk = rate_term
       /\ (rate = None /\ regression # None) => canary_risk = regression_term
       /\ (rate # None /\ regression # None)
              => canary_risk = IF rate_term > regression_term THEN rate_term
                               ELSE regression_term
       /\ (regression # None /\ regression[1] >= 150) => canary_risk = RiskUnit

\* a 5xx_rate of 0.005 and a CANARY p95_regression of 0.06: the terms are 0.5
\* and 0.4 and the risk is 0.5
C13_Witness ==
    /\ computed # None
    /\ FirstValue(computed[1].signals, "CANARY", "5xx_rate") = Some(5)
    /\ FirstValue(computed[1].signals, "CANARY", "p95_regression") = Some(60)
    /\ computed[1].canary_risk * 2 = RiskUnit

(* C14: risk_score is 100 * (w.tests * test_risk + w.coverage *            *)
(* coverage_risk + w.perf * perf_risk + w.canary * canary_risk) for every  *)
(* signal sequence and weight mapping; the deps weight contributes         *)
(* nothing: another deps weight, or the DEP signals taken away, gives the  *)
(* same risk_score and the same decision (the same result altogether).     *)
C14_DepsContributeNothing ==
    Returned =>
        LET w == ConfiguredWeights
            sigs == call[1].signals
        IN /\ Outcome.risk_score = w["tests"] * compute_test_risk(sigs)
                                   + w["coverage"] * compute_coverage_risk(sigs)
                                   + w["perf"] * compute_perf_risk(sigs)
                                   + w["canary"] * compute_canary_risk(sigs)
           \* a deps weight of 1.0, which no weight mapping in force has
           /\ Outcome = evaluate_release(sigs, call[1].thresholds,
                                         Some([k \in DOMAIN w \cup {"deps"} |->
                                                   IF k = "deps" THEN 100 ELSE w[k]]),
                                         settings)
           /\ Without(sigs, "DEP") # sigs
                  => Outcome = evaluate_release(Without(sigs, "DEP"), call[1].thresholds,
                                                call[1].weights, settings)

\* a DEP signal with a positive value was evaluated together with a signal
\* that carries risk, under weights whose deps entry is positive
C14_Witness ==
    /\ Returned
    /\ \E i \in 1..Len(call[1].signals) :
           call[1].signals[i].type = "DEP" /\ call[1].signals[i].value_num[1] > 0
    /\ "deps" \in DOMAIN ConfiguredWeights
    /\ ConfiguredWeights["deps"] > 0
    /\ Outcome.risk_score > 0

(* C15 as claimed: for every signal set in which each pass rate present    *)
(* (unit, integration, e2e) is 1.0 and total_tests, if present, is at      *)
(* least total_tests_min, compute_test_risk returns 0.0 and the rationale  *)
(* holds no failed RuleResult of severity BLOCK.                           *)
C15_AllPassMeansNoRiskNoBlock ==
    (Returned /\ CompleteConfig /\ AllTestsPass) =>
        /\ compute_test_risk(call[1].signals) = 0
        /\ ~Failed(Outcome.rationale, "BLOCK")

(* C15: for every signal set in which each pass rate present (unit,        *)
(* integration, e2e) is 1.0, total_tests, if present, is at least          *)
(* total_tests_min, no flaky_rate above 0 is present and no pass-rate      *)
(* minimum is configured above 1.0, compute_test_risk returns 0.0 and the  *)
(* rationale holds no failed RuleResult of a TEST rule (E2E_PASS_RATE,     *)
(* INTEGRATION_PASS_RATE, UNIT_PASS_RATE, TOTAL_TESTS).                    *)
C15_AllPassMeansNoTestRiskNoTestBlock ==
    (/\ Returned /\ CompleteConfig /\ AllTestsPass
     /\ FirstValue(call[1].signals, "TEST", "flaky_rate") \in {None, Some(0)}
     /\ \A k \in {"unit_pass_rate_min", "integration_pass_rate_min", "e2e_pass_rate_min"} :
            Configured[k] <= Milli) =>
        /\ compute_test_risk(call[1].signals) = 0
        /\ \A i \in 1..Len(Outcome.rationale) :
               Outcome.rationale[i].rule \in {"E2E_PASS_RATE", "INTEGRATION_PASS_RATE",
                                              "UNIT_PASS_RATE", "TOTAL_TESTS"}
                   => Outcome.rationale[i].passed

\* an e2e and a unit pass rate of 1.0 were evaluated: two TEST results, both
\* passed, and a test risk of 0
C15_Witness ==
    /\ Returned /\ CompleteConfig /\ AllTestsPass
    /\ FirstValue(call[1].signals, "TEST", "e2e_pass_rate") = Some(Milli)
    /\ FirstValue(call[1].signals, "TEST", "unit_pass_rate") = Some(Milli)
    /\ Len(Outcome.rationale) = 2
    /\ compute_test_risk(call[1].signals) = 0

(* C16: the engine keeps no mutable state between evaluations: however the *)
(* steps of several evaluate_release calls with different inputs and       *)
(* overrides interleave, each call returns what it returns when run alone, *)
(* and the default thresholds and default weights mappings are the same    *)
(* after any sequence of evaluations as before it.                         *)
C16_CallsDoNotInterfere ==
    /\ \A i \in Done :
           calls[i].outcome = Some(evaluate_release(calls[i].given, calls[i].thresholds,
                                                    calls[i].weights, settings))
    /\ default_thresholds = DEFAULT_THRESHOLDS
    /\ default_weights = DEFAULT_WEIGHTS

\* a call with overrides ran from start to end while an earlier call without
\* overrides was between two of its steps, and that one has ended as well
C16_Witness ==
    /\ Len(calls) = 3
    /\ calls[1].thresholds = None /\ calls[1].pc = "done"
    /\ calls[2].thresholds = Some(LenientThresholds) /\ calls[2].pc = "done"
    /\ calls[3].thresholds = None /\ calls[3].pc = "canary"
    /\ calls[1].outcome[1].kind = "EvaluationResult"
    /\ calls[2].outcome[1].decision # calls[1].outcome[1].decision

(* C17: evaluate_release is deterministic and free of side effects: two    *)
(* calls with the same signal sequence, thresholds, weights and settings   *)
(* end with the same EvaluationResult (decision, risk_score, rationale in  *)
(* content and order), whatever ran between them, and a call leaves the    *)
(* signals it was given as they were.                                      *)
C17_SameArgumentsSameResult ==
    /\ \A i, j \in Done : SameArguments(i, j) => calls[i].outcome = calls[j].outcome
    /\ \A i \in DOMAIN calls : calls[i].signals = calls[i].given

\* the first and the third call had the same arguments, the second had other
\* overrides, all three returned, the two alike with a
\* non-empty rationale
C17_Witness ==
    /\ Done = {1, 2, 3}
    /\ SameArguments(1, 3)
    /\ ~SameArguments(1, 2)
    /\ calls[1].outcome[1].kind = "EvaluationResult"
    /\ calls[1].outcome[1].rationale # <<>>
    /\ calls[3].outcome = calls[1].outcome
    /\ calls[2].outcome # calls[1].outcome

(* C18: absence neutrality: a signal whose (category, name) the engine     *)
(* does not look up, at whatever position of the sequence, changes         *)
(* nothing: risk_score, decision and rationale are those of the sequence   *)
(* without it.                                                             *)
C18_UnreadSignalsChangeNothing ==
    (Called /\ \E i \in 1..Len(call[1].signals) : ~LookedUp(call[1].signals[i])) =>
        Outcome = evaluate_release(SelectSeq(call[1].signals, LookedUp),
                                   call[1].thresholds, call[1].weights, settings)

\* a signal the engine does not look up stands before one it does, and the
\* evaluation returned a result for the latter
C18_Witness ==
    /\ Returned
    /\ Len(call[1].signals) = 2
    /\ ~LookedUp(call[1].signals[1])
    /\ LookedUp(call[1].signals[2])
    /\ Len(Outcome.rationale) = 1
    /\ Outcome.risk_score > 0

(* C19: the risk_score evaluate_release returns lies in 0..100, both ends  *)
(* included, for every signal sequence and every complete weight mapping,  *)
(* the caller's or the default one.                                        *)
C19_RiskScoreWithinZeroAndHundred ==
    (Returned /\ DOMAIN ConfiguredWeights = DOMAIN DEFAULT_WEIGHTS) =>
        /\ 0 <= Outcome.risk_score
        /\ Outcome.risk_score <= 100 * RiskUnit

(* C20 as claimed: the rationale lists its results in the catalog order    *)
(* E2E_PASS_RATE, INTEGRATION_PASS_RATE, UNIT_PASS_RATE, TOTAL_TESTS,      *)
(* LINE_COVERAGE, COVERAGE_DROP, P95_REGRESSION, ERROR_RATE,               *)
(* CANARY_5XX_RATE, restricted to the rules whose signal is present in     *)
(* the sequence, whatever the order of the signals, no rule id twice.      *)
C20_CatalogOrderOfPresentSignals ==
    Returned =>
        RuleIds(Outcome.rationale)
            = SelectSeq(CatalogOrder,
                        LAMBDA r : Matches(call[1].signals, Entry(r).type, Entry(r).name) # {})

(* C20: the rationale lists its results in the catalog order               *)
(* E2E_PASS_RATE, INTEGRATION_PASS_RATE, UNIT_PASS_RATE, TOTAL_TESTS,      *)
(* LINE_COVERAGE, COVERAGE_DROP, P95_REGRESSION, ERROR_RATE,               *)
(* CANARY_5XX_RATE, restricted to the rules whose first matching signal    *)
(* carries a numeric value, whatever the order of the signals, no rule id  *)
(* twice.                                                                  *)
C20_CatalogOrderOfNumericSignals ==
    Returned =>
        RuleIds(Outcome.rationale)
            = SelectSeq(CatalogOrder,
                        LAMBDA r : FirstValue(call[1].signals,
                                              Entry(r).type, Entry(r).name) # None)

\* the signals were handed over against the catalog order, a PERF signal
\* before a TEST signal, and the rationale lists the TEST rule first
C20_Witness ==
    /\ Returned
    /\ Len(call[1].signals) = 2
    /\ call[1].signals[1].type = "PERF"
    /\ call[1].signals[2].type = "TEST"
    /\ Len(Outcome.rationale) = 2
    /\ Entry(Outcome.rationale[1].rule).type = "TEST"
    /\ Entry(Outcome.rationale[2].rule).type = "PERF"

(* C21: Signal Lookup resolves a (category, name) key to the latest        *)
(* matching numeric value of the ordered sequence: of several signals of   *)
(* one category and name the gates use the value of the latest one that    *)
(* carries a number, so that a newer signal ingested for a metric changes  *)
(* the value the next evaluation uses.                                     *)
C21_LookupResolvesLatest ==
    Evaluated =>
        LET stored == db_signals[response[1].release_id]
            rows == db_evaluations[response[1].release_id]
            rationale == rows[Len(rows)].rationale_json
        IN \A i \in 1..Len(rationale) :
               <<rationale[i].observed>>
                   = LatestValue(stored, Entry(rationale[i].rule).type,
                                 Entry(rationale[i].rule).name)

(* C22: every successful evaluate request appends exactly one Evaluation   *)
(* record for its release and changes no signal and no earlier Evaluation; *)
(* a report shows the decision and risk score of a record with the         *)
(* greatest evaluated_at of its release, and shows no evaluation exactly   *)
(* when the release has no Evaluation record.                              *)
C22_AppendOneAndReportLatest ==
    /\ [][LET rid == response'[1].release_id
              succeeded == /\ response' # None
                           /\ response'[1].request = "evaluate"
                           /\ response'[1].status_code = 200
          IN /\ (succeeded /\ response' # response) =>
                    Len(db_evaluations'[rid]) = Len(db_evaluations[rid]) + 1
             /\ db_evaluations' # db_evaluations =>
                    /\ succeeded
                    /\ db_signals' = db_signals
                    /\ Len(db_evaluations'[rid]) = Len(db_evaluations[rid]) + 1
                    /\ SubSeq(db_evaluations'[rid], 1, Len(db_evaluations[rid]))
                           = db_evaluations[rid]
                    /\ \A q \in 1..MaxReleases :
                           q # rid => db_evaluations'[q] = db_evaluations[q]]_vars
    /\ [](Reported =>
            LET rows == db_evaluations[response[1].release_id]
                body == response[1].body
            IN /\ body.evaluation = None <=> rows = <<>>
               /\ body.summary.decision = None <=> rows = <<>>
               /\ rows # <<>> =>
                      \E i \in 1..Len(rows) :
                          /\ Greatest(rows, i)
                          /\ body.evaluation[1].decision = rows[i].decision
                          /\ body.evaluation[1].risk_score = rows[i].risk_score
                          /\ body.summary.decision = Some(rows[i].decision)
                          /\ body.summary.risk_score = Some(rows[i].risk_score))

\* a report of a release evaluated twice, whose later record carries the
\* smaller evaluated_at and another decision than the earlier one
C22_Witness ==
    /\ Reported
    /\ LET rows == db_evaluations[response[1].release_id]
       IN /\ Len(rows) = 2
          /\ rows[2].evaluated_at < rows[1].evaluated_at
          /\ rows[2].decision # rows[1].decision
          /\ response[1].body.evaluation[1].decision = rows[1].decision

(* C23: the Evaluation record persisted by an evaluate request stores the  *)
(* engine's whole rationale, passed and failed results in order, with the  *)
(* decision returned to the caller; the evaluate response, the report and  *)
(* EvaluationResult.to_dict expose exactly the results with passed = false *)
(* in the same relative order; an APPROVE response has an empty rationale  *)
(* and comes with no failed gate; no exposed result has severity INFO.     *)
C23_FullRationaleStoredFailedExposed ==
    /\ Evaluated =>
           LET rid == response[1].release_id
               rows == db_evaluations[rid]
               row == rows[Len(rows)]
               body == response[1].body
               result == evaluate_release(db_signals[rid], None, None, settings)
               failed == SelectSeq(row.rationale_json, LAMBDA r : ~r.passed)
           IN /\ row.rationale_json = result.rationale
              /\ row.decision = body.decision
              /\ body.rationale = failed
              /\ to_dict(result).rationale = failed
              /\ to_dict(result).decision = row.decision
              /\ body.rationale = <<>> <=>
                     \A i \in 1..Len(row.rationale_json) : row.rationale_json[i].passed
              /\ body.decision = "APPROVE" => body.rationale = <<>>
              /\ \A i \in 1..Len(body.rationale) :
                     body.rationale[i].severity # "INFO" /\ ~body.rationale[i].passed
    /\ (Reported /\ response[1].body.evaluation # None) =>
           LET rows == db_evaluations[response[1].release_id]
               shown == response[1].body.evaluation[1]
           IN /\ \E i \in 1..Len(rows) :
                     /\ Greatest(rows, i)
                     /\ shown.decision = rows[i].decision
                     /\ shown.rationale
                            = SelectSeq(rows[i].rationale_json, LAMBDA r : ~r.passed)
              /\ \A i \in 1..Len(shown.rationale) :
                     shown.rationale[i].severity # "INFO" /\ ~shown.rationale[i].passed

\* an evaluate response whose persisted rationale holds a passed result
\* followed by a failed one, of which the response exposes only the second
C23_Witness ==
    /\ Evaluated
    /\ LET rows == db_evaluations[response[1].release_id]
           stored == rows[Len(rows)].rationale_json
       IN /\ Len(stored) = 2
          /\ stored[1].passed /\ stored[1].severity = "INFO"
          /\ ~stored[2].passed
          /\ response[1].body.rationale = <<stored[2]>>

====
